---- MODULE Spec2Model ----
(***************************************************************************)
(* A model of simple-math-lib/src/calculator.rs: the recursive-descent     *)
(* evaluator `calculate` with its nine precedence levels, the variable and *)
(* function maps of a session, and the depth counter of a Context.         *)
(*                                                                         *)
(* The Rust call stack is explicit: `top` is the frame of the function     *)
(* that is running, `stack` the frames of its callers, `ret` the value a   *)
(* callee has just returned, `ctxs` the Contexts in use (the session's     *)
(* own, then one per user-function body being evaluated).  A step of the   *)
(* model is the code of one function between two calls or returns.         *)
(*                                                                         *)
(* Only the frames that hold data are stored.  A call in tail position     *)
(* (calc_level8 -> calc_level9 -> get_number) replaces the running frame,  *)
(* and a level of the cascade that waits for its first operand             *)
(* (calculate .. calc_level7, each of which begins by calling the next     *)
(* level) has nothing to remember: which of them are waiting follows from  *)
(* the function the innermost stored frame has called.                     *)
(***************************************************************************)
EXTENDS Integers, Sequences, FiniteSets, TLC

VARIABLES
    variables,  \* HashMap<String, BigDecimal> of the session (Context.variables)
    functions,  \* HashMap<String, Vec<Token>> of the session (Context.functions)
    ctxs,       \* the Contexts in use, innermost last: [tokens, level]
    top,        \* the frame of the running function: [fn, at, ...]
    stack,      \* the frames of the callers that hold data, innermost last
    ret,        \* the Result the callee on top has just returned, or NoRet
    pc,         \* "idle": no evaluation; "run": inside calculate; "done": it returned
    input,      \* the token sequence handed to Context::new
    result,     \* what the top-level calculate returned
    suite       \* which set of inputs the session's caller draws from

vars == <<variables, functions, ctxs, top, stack, ret, pc, input, result, suite>>

-----------------------------------------------------------------------------
(* BigDecimal.  The numeric type is external to calculator.rs; it is       *)
(* modelled as an exact rational n/d in lowest terms with d > 0 (the       *)
(* inputs used below only divide where the decimal expansion terminates).  *)

RECURSIVE GCD(_, _)
GCD(a, b) == IF b = 0 THEN a ELSE GCD(b, a % b)

AbsInt(i) == IF i < 0 THEN -i ELSE i

Norm(n, d) ==
    LET s == IF d < 0 THEN -1 ELSE 1
        g == GCD(AbsInt(n), AbsInt(d))
    IN  [n |-> (s * n) \div g, d |-> (s * d) \div g]

FromInt(i) == [n |-> i, d |-> 1]
Zero == FromInt(0)
One == FromInt(1)

NumAdd(a, b) == Norm(a.n * b.d + b.n * a.d, a.d * b.d)
NumSub(a, b) == Norm(a.n * b.d - b.n * a.d, a.d * b.d)
NumMul(a, b) == Norm(a.n * b.n, a.d * b.d)
\* only applied to a non-zero divisor; BigDecimal's `/` panics on a zero one
NumDiv(a, b) == Norm(a.n * b.d, a.d * b.n)
NumNeg(a) == [n |-> -a.n, d |-> a.d]
NumAbs(a) == [n |-> AbsInt(a.n), d |-> a.d]
IsZero(a) == a.n = 0
IsMinus(a) == a.n < 0

\* truncation towards zero, as BigDecimal::with_scale(0) does
Trunc(a) == IF a.n < 0 THEN -(AbsInt(a.n) \div a.d) ELSE a.n \div a.d

\* Option<i64> / Option<usize>: [some, v].  Every number the model can hold lies
\* far inside the i64 range (the model's integers are narrower than 64 bits), so
\* the narrowing fails only for a negative number narrowed to usize.
to_i64(a) == [some |-> TRUE, v |-> Trunc(a)]

to_usize(a) ==
    IF Trunc(a) >= 0 /\ ~IsMinus(a) THEN [some |-> TRUE, v |-> Trunc(a)]
    ELSE [some |-> FALSE, v |-> 0]

\* two's-complement bitwise operators on (unbounded) integers
RECURSIVE BitOp(_, _, _)
BitOp(op, a, b) ==
    LET bit(x, y) == CASE op = "xor" -> (IF x # y THEN 1 ELSE 0)
                       [] op = "or"  -> (IF x = 1 \/ y = 1 THEN 1 ELSE 0)
                       [] op = "and" -> (IF x = 1 /\ y = 1 THEN 1 ELSE 0)
    IN  IF a \in {0, -1} /\ b \in {0, -1}
        THEN -bit(-a, -b)
        ELSE 2 * BitOp(op, a \div 2, b \div 2) + bit(a % 2, b % 2)

-----------------------------------------------------------------------------
(* Token (parser::Token): a record with the variant `t`, and the payload   *)
(* `name` of BlockName / VarAssign / VarGet or `v` of Num.                 *)

Tok(t) == [t |-> t]
Num(i) == [t |-> "Num", v |-> FromInt(i)]
BlockName(s) == [t |-> "BlockName", name |-> s]
VarAssign(s) == [t |-> "VarAssign", name |-> s]
VarGet(s) == [t |-> "VarGet", name |-> s]
ParenOpen == Tok("ParenOpen")
ParenClose == Tok("ParenClose")
Separator == Tok("Separator")
\* what peek() / next() give at the end of the stream
NoTok == Tok("None")

(* CalcError: [kind, name, tok, exp, got].                                 *)
Error(k) == [kind |-> k, name |-> "", tok |-> NoTok, exp |-> 0, got |-> 0]
ExpectedEOF(tok) == [Error("ExpectedEOF") EXCEPT !.tok = tok]
IncorrectArguments(e, g) == [Error("IncorrectArguments") EXCEPT !.exp = e, !.got = g]
NotAPrimitive(s) == [Error("NotAPrimitive") EXCEPT !.name = s]
UnknownFunction(s) == [Error("UnknownFunction") EXCEPT !.name = s]
UnknownVariable(s) == [Error("UnknownVariable") EXCEPT !.name = s]

(* Result<BigDecimal, CalcError>, plus the two outcomes that are no        *)
(* Result: nothing returned yet, and a panic of the thread.                *)
Ok(v) == [st |-> "Ok", val |-> v, err |-> Error("")]
Err(e) == [st |-> "Err", val |-> Zero, err |-> e]
NoRet == [st |-> "none", val |-> Zero, err |-> Error("")]
Panic == [st |-> "Panic", val |-> Zero, err |-> Error("")]

\* std::u8::MAX
U8Max == 255

-----------------------------------------------------------------------------
(* The standalone numeric operations.                                      *)

require_whole(num) == IF num.d = 1 THEN Ok(Zero) ELSE Err(Error("NotAWhole"))

require_positive(num) == IF IsMinus(num) THEN Err(Error("NotAPositive")) ELSE Ok(Zero)

Some(v) == [some |-> TRUE, v |-> v]
None == [some |-> FALSE, v |-> Zero]
unwrap_or(opt, v) == IF opt.some THEN opt.v ELSE v

RECURSIVE factorial(_, _)
factorial(num, res) ==
    IF require_whole(num).st = "Err" THEN require_whole(num)
    ELSE IF require_positive(num).st = "Err" THEN require_positive(num)
    ELSE IF IsZero(num) THEN Ok(unwrap_or(res, One))
    ELSE factorial(NumSub(num, One), Some(NumMul(unwrap_or(res, One), num)))

RECURSIVE pow(_, _, _)
pow(num, power, res) ==
    IF require_positive(num).st = "Err" THEN require_positive(num)
    ELSE IF require_whole(power).st = "Err" THEN require_whole(power)
    ELSE IF IsZero(power) THEN Ok(unwrap_or(res, One))
    ELSE IF power = One THEN Ok(unwrap_or(res, num))
    ELSE IF ~IsMinus(power)
         THEN pow(num, NumSub(power, One), Some(NumMul(unwrap_or(res, num), num)))
         \* `result / &num`: BigDecimal's division panics on a zero divisor
         ELSE IF IsZero(num) THEN Panic
         ELSE pow(num, NumAdd(power, One), Some(NumDiv(unwrap_or(res, One), num)))

-----------------------------------------------------------------------------
(* Function-definition capture: the loop of get_number that consumes the   *)
(* tokens after `name = (` up to the matching close-parenthesis.           *)

\* `depth` after the loop has processed the first i tokens of toks
CaptureDepth(toks, i) ==
    1 + Cardinality({j \in 1..i : toks[j] = ParenOpen})
      - Cardinality({j \in 1..i : toks[j] = ParenClose})

\* what the i-th iteration of the loop does
CaptureEvent(toks, i) ==
    IF toks[i] = Separator /\ CaptureDepth(toks, i - 1) = 1 THEN "SeparatorInDef"
    ELSE IF CaptureDepth(toks, i) = 0 THEN "break"
    ELSE IF CaptureDepth(toks, i) = U8Max THEN "TooDeep"
    ELSE "continue"

\* [st, fn_tokens, rest]: how the loop ends, the tokens it pushed, the tokens left
Capture(toks) ==
    LET stops == {i \in 1..Len(toks) : CaptureEvent(toks, i) # "continue"}
    IN  IF stops = {}
        THEN [st |-> "UnclosedParen", fn_tokens |-> toks, rest |-> <<>>]
        ELSE LET i == CHOOSE k \in stops : \A l \in stops : k <= l
             IN  [st |-> CaptureEvent(toks, i),
                  fn_tokens |-> SubSeq(toks, 1,
                      IF CaptureEvent(toks, i) = "SeparatorInDef" THEN i - 1 ELSE i),
                  rest |-> SubSeq(toks, i + 1, Len(toks))]

-----------------------------------------------------------------------------
(* The machine: Contexts, frames, calls and returns.                       *)

\* HashMap: a function from the set of its keys
EmptyMap == [k \in {} |-> Zero]
insert(map, k, v) == [x \in DOMAIN map \cup {k} |-> IF x = k THEN v ELSE map[x]]
remove(map, k) == [x \in DOMAIN map \ {k} |-> map[x]]

\* the name of the i-th positional parameter: '$' followed by i
ParamName(i) == "$" \o ToString(i)

\* Option<String> of calc_level9's `name`: NoName is None
NoName == ""

\* Context::new
NewContext(tokens) == [tokens |-> tokens, level |-> 0]

Cur == ctxs[Len(ctxs)]
\* tokens.peek() and the Contexts after tokens.next(), for the innermost Context of cs
PeekOf(cs) == IF cs[Len(cs)].tokens = <<>> THEN NoTok ELSE Head(cs[Len(cs)].tokens)
NextOf(cs) == [cs EXCEPT ![Len(cs)].tokens = IF @ = <<>> THEN @ ELSE Tail(@)]
peek == PeekOf(ctxs)
next == NextOf(ctxs)

\* a u8 incremented / decremented (wrapping, as a release build does)
Inc(level) == (level + 1) % (U8Max + 1)
Dec(level) == (level + U8Max) % (U8Max + 1)

Frame(fn, at) == [fn |-> fn, at |-> at]
Frame9(at, name) == [fn |-> "calc_level9", at |-> at, name |-> name, args |-> <<>>]
NoFrame == Frame("", "")

Running(fn) == pc = "run" /\ top.fn = fn

\* calculate and the levels in the order they call each other
Cascade ==
    <<"calculate", "calc_level2", "calc_level3", "calc_level4", "calc_level5",
      "calc_level6", "calc_level7", "calc_level8">>

\* the place of a function in the cascade; calc_level9 and get_number run in
\* tail position of calc_level8 and return in its place
Level(fn) ==
    IF \E i \in 1..Len(Cascade) : Cascade[i] = fn
    THEN CHOOSE i \in 1..Len(Cascade) : Cascade[i] = fn
    ELSE Len(Cascade)

\* the function a stored frame has called and is waiting for
Callee(frame) ==
    CASE frame.at = "expr2" -> frame.fn
      [] frame.at = "not" -> "calc_level8"
      [] frame.at = "neg" -> "calc_level9"
      [] OTHER -> "calculate"

\* the function the innermost stored frame, or the session, has called
Entry == IF stack = <<>> THEN "calculate" ELSE Callee(stack[Len(stack)])

\* the running function calls `callee` and will resume as `frame`
Call(frame, callee) ==
    /\ stack' = Append(stack, frame)
    /\ top' = callee
    /\ ret' = NoRet

\* the running function calls `callee` and holds nothing to resume with: a tail
\* call, or a level of the cascade asking the next level for its first operand
Enter(callee) ==
    /\ stack' = stack
    /\ top' = callee
    /\ ret' = NoRet

\* the running function returns r.  A level of the cascade that waits for its
\* first operand takes a value at `expr1` (`expr` in calc_level7) and passes an
\* error on to its own caller (the `?` after the call), so an error goes to the
\* innermost stored frame, or to the session when there is none.
Return(r) ==
    /\ ret' = r
    /\ IF r.st = "Ok" /\ Level(top.fn) > Level(Entry)
       THEN /\ top' = Frame(Cascade[Level(top.fn) - 1],
                            IF Level(top.fn) = Len(Cascade) THEN "expr" ELSE "expr1")
            /\ stack' = stack
       ELSE IF stack = <<>>
       THEN top' = NoFrame /\ stack' = stack
       ELSE /\ top' = stack[Len(stack)]
            /\ stack' = SubSeq(stack, 1, Len(stack) - 1)

\* the thread panics: the evaluation never returns and the session is over
Panics ==
    /\ stack' = <<>>
    /\ top' = NoFrame
    /\ ctxs' = <<>>
    /\ ret' = NoRet
    /\ pc' = "done"
    /\ result' = Panic

maps == <<variables, functions>>
session == <<pc, input, result, suite>>

-----------------------------------------------------------------------------
(* calculate and the levels 2 to 8.                                        *)

\* the guard written with a comparison that a u8 never satisfies
TooDeepNever(level) == level > U8Max

\* the guard at the head of calculate
TooDeep(level) == level = U8Max

\* the closing match without its `context.level != 0` guard
MatchEOFAnyLevel(level, tok, expr1) ==
    IF tok \in {ParenClose, Separator}
    THEN [r |-> Ok(expr1), consumed |-> FALSE]
    ELSE IF tok # NoTok
    THEN [r |-> Err(ExpectedEOF(tok)), consumed |-> TRUE]
    ELSE [r |-> Ok(expr1), consumed |-> FALSE]

\* the closing match of calculate: [r, consumed]
MatchEOF(level, tok, expr1) ==
    IF tok \in {ParenClose, Separator} /\ level # 0
    THEN [r |-> Ok(expr1), consumed |-> FALSE]
    ELSE IF tok # NoTok
    THEN [r |-> Err(ExpectedEOF(tok)), consumed |-> TRUE]
    ELSE [r |-> Ok(expr1), consumed |-> FALSE]

\* to_primitive!(expr1, to_i64), to_primitive!(expr2, to_i64), then the operator
Bitwise(op, expr1, expr2) ==
    IF ~to_i64(expr1).some \/ ~to_i64(expr2).some
    THEN Err(NotAPrimitive("i64"))
    ELSE Ok(FromInt(BitOp(op, to_i64(expr1).v, to_i64(expr2).v)))

calculate ==
    /\ Running("calculate")
    /\ CASE top.at = "start" ->
              /\ IF TooDeep(Cur.level)
                 THEN Return(Err(Error("TooDeep")))
                 ELSE Enter(Frame("calc_level2", "start"))
              /\ UNCHANGED ctxs
         [] top.at = "expr1" ->
              IF peek.t = "Xor"
              THEN /\ ctxs' = next
                   /\ Call([fn |-> "calculate", at |-> "expr2", expr1 |-> ret.val],
                           Frame("calculate", "start"))
              ELSE LET m == MatchEOF(Cur.level, peek, ret.val)
                   IN  /\ ctxs' = IF m.consumed THEN next ELSE ctxs
                       /\ Return(m.r)
         [] top.at = "expr2" ->
              /\ IF ret.st = "Err" THEN Return(ret)
                 ELSE Return(Bitwise("xor", top.expr1, ret.val))
              /\ UNCHANGED ctxs
    /\ UNCHANGED <<maps, session>>

\* a level of the shape: operand of the next level, then optionally an operator
\* of `ops` and a right operand of this same level
BinaryLevel(fn, higher, ops, apply(_, _, _)) ==
    /\ Running(fn)
    /\ CASE top.at = "start" ->
              /\ Enter(Frame(higher, "start"))
              /\ UNCHANGED ctxs
         [] top.at = "expr1" ->
              IF peek.t \in ops
              THEN /\ ctxs' = next
                   /\ Call([fn |-> fn, at |-> "expr2", op |-> peek.t, expr1 |-> ret.val],
                           Frame(fn, "start"))
              ELSE Return(ret) /\ UNCHANGED ctxs
         [] top.at = "expr2" ->
              /\ IF ret.st = "Err" THEN Return(ret)
                 ELSE Return(apply(top.op, top.expr1, ret.val))
              /\ UNCHANGED ctxs
    /\ UNCHANGED <<maps, session>>

Level2(op, expr1, expr2) == Bitwise("or", expr1, expr2)
calc_level2 == BinaryLevel("calc_level2", "calc_level3", {"Or"}, Level2)

Level3(op, expr1, expr2) == Bitwise("and", expr1, expr2)
calc_level3 == BinaryLevel("calc_level3", "calc_level4", {"And"}, Level3)

\* to_usize of the right operand first, then require_whole of the left one
Level4(op, expr1, expr2) ==
    IF ~to_usize(expr2).some THEN Err(NotAPrimitive("usize"))
    ELSE IF require_whole(expr1).st = "Err" THEN require_whole(expr1)
    ELSE IF op = "BitshiftLeft" THEN Ok(FromInt(expr1.n * 2^(to_usize(expr2).v)))
    ELSE Ok(FromInt(expr1.n \div 2^(to_usize(expr2).v)))
calc_level4 ==
    BinaryLevel("calc_level4", "calc_level5", {"BitshiftLeft", "BitshiftRight"}, Level4)

\* level 5 with the operands of the subtraction exchanged
Level5Exchanged(op, expr1, expr2) ==
    IF op = "Add" THEN Ok(NumAdd(expr1, expr2)) ELSE Ok(NumSub(expr2, expr1))

Level5(op, expr1, expr2) ==
    IF op = "Add" THEN Ok(NumAdd(expr1, expr2)) ELSE Ok(NumSub(expr1, expr2))
calc_level5 == BinaryLevel("calc_level5", "calc_level6", {"Add", "Sub"}, Level5)

Level6(op, expr1, expr2) ==
    IF op = "Mul" THEN Ok(NumMul(expr1, expr2))
    ELSE IF IsZero(expr2) THEN Err(Error("DivideByZero"))
    ELSE Ok(NumDiv(expr1, expr2))
calc_level6 == BinaryLevel("calc_level6", "calc_level7", {"Mul", "Div"}, Level6)

calc_level7 ==
    /\ Running("calc_level7")
    /\ CASE top.at = "start" ->
              /\ Enter(Frame("calc_level8", "start"))
              /\ UNCHANGED ctxs
         [] top.at = "expr" ->
              IF peek.t = "Factorial"
              THEN ctxs' = next /\ Return(factorial(ret.val, None))
              ELSE Return(ret) /\ UNCHANGED ctxs
    /\ UNCHANGED <<maps, session>>

calc_level8 ==
    /\ Running("calc_level8")
    /\ CASE top.at = "start" ->
              IF peek.t = "Not"
              THEN /\ ctxs' = next
                   /\ Call(Frame("calc_level8", "not"), Frame("calc_level8", "start"))
              ELSE /\ UNCHANGED ctxs
                   /\ Enter(Frame9("start", NoName))
         [] top.at = "not" ->
              /\ IF ret.st = "Err" THEN Return(ret)
                 ELSE IF ~to_i64(ret.val).some THEN Return(Err(NotAPrimitive("i64")))
                 ELSE Return(Ok(FromInt(-to_i64(ret.val).v - 1)))
              /\ UNCHANGED ctxs
    /\ UNCHANGED <<maps, session>>

-----------------------------------------------------------------------------
(* calc_level9: groups and calls.                                          *)

\* the loop that binds the arguments as $1..$N
BindArgs(map, args) ==
    [x \in DOMAIN map \cup {ParamName(i) : i \in 1..Len(args)} |->
        IF \E i \in 1..Len(args) : x = ParamName(i)
        THEN args[CHOOSE i \in 1..Len(args) : x = ParamName(i)]
        ELSE map[x]]

\* the removal loop stopping one short: 1..len-1
RemoveParamsButLast(map, len) ==
    [x \in DOMAIN map \ {ParamName(i) : i \in 1..(len - 1)} |-> map[x]]

\* the loop that removes $1..$len
RemoveParams(map, len) ==
    [x \in DOMAIN map \ {ParamName(i) : i \in 1..len} |-> map[x]]

\* a lookup that gives an empty body for a name that is no key
GetFunctionOrEmpty(fns, name) ==
    [some |-> TRUE, v |-> IF name \in DOMAIN fns THEN fns[name] ELSE <<>>]

\* context.functions.get(&name)
GetFunction(fns, name) ==
    IF name \in DOMAIN fns THEN [some |-> TRUE, v |-> fns[name]]
    ELSE [some |-> FALSE, v |-> <<>>]

\* usage!(expected)
Usage(args, expected) ==
    IF Len(args) # expected THEN Err(IncorrectArguments(expected, Len(args)))
    ELSE Ok(Zero)

\* a plain group (name is None) and the built-ins abs and pow
Builtin(name, args) ==
    LET expected == CASE name = "abs" -> 1 [] name = "pow" -> 2 [] OTHER -> 1
    IN  IF Usage(args, expected).st = "Err" THEN Usage(args, expected)
        ELSE IF name = "abs" THEN Ok(NumAbs(args[1]))
        ELSE IF name = "pow" THEN pow(args[1], args[2], None)
        ELSE IF args = <<>> THEN Ok(Zero)
        ELSE Ok(args[1])

\* what follows the argument list once the parenthesis is closed, with cs the
\* Contexts at that point
Dispatch(cs, name, args) ==
    IF name \in {NoName, "abs", "pow"}
    THEN IF Builtin(name, args) = Panic
         THEN Panics /\ UNCHANGED variables
         ELSE /\ Return(Builtin(name, args))
              /\ ctxs' = cs
              /\ UNCHANGED <<variables, pc, result>>
    ELSE IF ~GetFunction(functions, name).some
    THEN /\ Return(Err(UnknownFunction(name)))
         /\ ctxs' = cs
         /\ UNCHANGED <<variables, pc, result>>
    ELSE /\ variables' = BindArgs(variables, args)
         /\ ctxs' = Append(cs, [tokens |-> GetFunction(functions, name).v,
                                level |-> Inc(cs[Len(cs)].level)])
         \* `args` has been moved into the map; the frame keeps it for reference
         /\ Call([fn |-> "calc_level9", at |-> "body", name |-> name,
                  args |-> args, len |-> Len(args)],
                 Frame("calculate", "start"))
         /\ UNCHANGED <<pc, result>>

\* `if Some(Token::ParenClose) != context.tokens.next()`, then the dispatch
CloseParen(cs, name, args) ==
    IF PeekOf(cs) # ParenClose
    THEN /\ Return(Err(Error("UnclosedParen")))
         /\ ctxs' = NextOf(cs)
         /\ UNCHANGED <<variables, pc, result>>
    ELSE Dispatch(NextOf(cs), name, args)

SetLevel(cs, level) == [cs EXCEPT ![Len(cs)].level = level]

calc_level9 ==
    /\ Running("calc_level9")
    /\ CASE top.at = "start" ->
              IF peek = ParenOpen
              THEN IF PeekOf(next) = ParenClose
                   THEN CloseParen(next, top.name, <<>>)
                   ELSE /\ ctxs' = SetLevel(next, Inc(Cur.level))
                        /\ Call([top EXCEPT !.at = "arg"], Frame("calculate", "start"))
                        /\ UNCHANGED <<variables, pc, result>>
              ELSE IF top.name = NoName /\ peek.t = "BlockName"
              THEN /\ ctxs' = next
                   /\ Enter(Frame9("start", peek.name))
                   /\ UNCHANGED <<variables, pc, result>>
              ELSE /\ Enter(Frame("get_number", "start"))
                   /\ UNCHANGED <<ctxs, variables, pc, result>>
         [] top.at = "arg" ->
              IF ret.st = "Err"
              THEN Return(ret) /\ UNCHANGED <<ctxs, variables, pc, result>>
              ELSE IF peek = Separator
              THEN /\ ctxs' = next
                   /\ Call([top EXCEPT !.args = Append(@, ret.val)],
                           Frame("calculate", "start"))
                   /\ UNCHANGED <<variables, pc, result>>
              ELSE CloseParen(SetLevel(ctxs, Dec(Cur.level)), top.name,
                              Append(top.args, ret.val))
         [] top.at = "body" ->
              /\ ctxs' = SubSeq(ctxs, 1, Len(ctxs) - 1)
              /\ variables' = RemoveParams(variables, top.len)
              /\ Return(ret)
              /\ UNCHANGED <<pc, result>>
    /\ UNCHANGED <<functions, input, suite>>

-----------------------------------------------------------------------------
(* get_number: literals, negation, assignment, definition, variable read.  *)

\* an insert that keeps the value already bound (entry().or_insert())
AssignVariableIfAbsent(map, name, val) ==
    IF name \in DOMAIN map THEN map ELSE insert(map, name, val)

\* context.variables.insert(name, val)
AssignVariable(map, name, val) == insert(map, name, val)

\* an insert that keeps the definition already stored
DefineFunctionIfAbsent(fns, name, fn_tokens) ==
    IF name \in DOMAIN fns THEN fns ELSE insert(fns, name, fn_tokens)

\* context.functions.insert(name, fn_tokens)
DefineFunction(fns, name, fn_tokens) == insert(fns, name, fn_tokens)

\* context.variables.get(&name)
ReadVariable(map, name) ==
    IF name \in DOMAIN map THEN Ok(map[name]) ELSE Err(UnknownVariable(name))

get_number ==
    /\ Running("get_number")
    /\ CASE top.at = "start" ->
              CASE peek.t = "Num" ->
                     /\ ctxs' = next
                     /\ Return(Ok(peek.v))
                     /\ UNCHANGED maps
                [] peek.t = "Sub" ->
                     /\ ctxs' = next
                     /\ Call(Frame("get_number", "neg"), Frame9("start", NoName))
                     /\ UNCHANGED maps
                [] peek.t = "VarAssign" ->
                     IF PeekOf(next) = ParenOpen
                     THEN LET c == Capture(Tail(Tail(Cur.tokens)))
                          IN  /\ ctxs' = [ctxs EXCEPT ![Len(ctxs)].tokens = c.rest]
                              /\ IF c.st = "break"
                                 THEN /\ functions' =
                                           DefineFunction(functions, peek.name, c.fn_tokens)
                                      /\ Return(Ok(Zero))
                                 ELSE /\ Return(Err(Error(c.st)))
                                      /\ UNCHANGED functions
                              /\ UNCHANGED variables
                     ELSE /\ ctxs' = next
                          /\ Call([fn |-> "get_number", at |-> "assign", name |-> peek.name],
                                  Frame("calculate", "start"))
                          /\ UNCHANGED maps
                [] peek.t = "VarGet" ->
                     /\ ctxs' = next
                     /\ Return(ReadVariable(variables, peek.name))
                     /\ UNCHANGED maps
                [] OTHER ->
                     /\ ctxs' = next
                     /\ Return(Err(Error("InvalidSyntax")))
                     /\ UNCHANGED maps
         [] top.at = "neg" ->
              /\ IF ret.st = "Err" THEN Return(ret) ELSE Return(Ok(NumNeg(ret.val)))
              /\ UNCHANGED <<ctxs, maps>>
         [] top.at = "assign" ->
              /\ IF ret.st = "Err"
                 THEN Return(ret) /\ UNCHANGED variables
                 ELSE /\ variables' = AssignVariable(variables, top.name, ret.val)
                      /\ Return(Ok(Zero))
              /\ UNCHANGED <<ctxs, functions>>
    /\ UNCHANGED session

-----------------------------------------------------------------------------
(* The session: its caller builds a Context over a token sequence and the  *)
(* two maps, calls calculate, and gets a Result back.                      *)

\* the operator and marker tokens
Xor == Tok("Xor")
Or == Tok("Or")
And == Tok("And")
BitshiftLeft == Tok("BitshiftLeft")
BitshiftRight == Tok("BitshiftRight")
Add == Tok("Add")
Sub == Tok("Sub")
Mul == Tok("Mul")
Div == Tok("Div")
Factorial == Tok("Factorial")
Not == Tok("Not")

\* n nested groups around a literal: ( ( ... 1 ... ) )
Nest(n) ==
    [i \in 1..(2 * n + 1) |->
        IF i <= n THEN ParenOpen ELSE IF i = n + 1 THEN Num(1) ELSE ParenClose]

\* a call with the n arguments 1, 2, .., n: name ( 1 , 2 , .. , n )
CallOf(name, n) ==
    IF n = 0 THEN <<BlockName(name), ParenOpen, ParenClose>>
    ELSE [i \in 1..(2 * n + 2) |->
            IF i = 1 THEN BlockName(name)
            ELSE IF i = 2 THEN ParenOpen
            ELSE IF i = 2 * n + 2 THEN ParenClose
            ELSE IF i % 2 = 1 THEN Num((i - 1) \div 2)
            ELSE Separator]

\* name = ( body )
Definition(name, body) == <<VarAssign(name), ParenOpen>> \o body \o <<ParenClose>>

\* how far past the deepest nesting that still evaluates the inputs go
MaxOver == 1
\* the most arguments a call of the inputs passes
MaxArgs == 2
\* the largest literal of the arithmetic inputs
MaxLit == 3

\* bodies of the functions the session inputs define
BodySquare == <<VarGet("$1"), Mul, VarGet("$1")>>
BodyCallsG == <<BlockName("g"), ParenOpen, Num(7), ParenClose, Add, VarGet("$1")>>
BodyFails == <<VarGet("$1"), Div, Num(0)>>
BodyAssigns == <<VarAssign("x"), VarGet("$1")>>
BodyUsesX == <<VarGet("$1"), Add, VarGet("x")>>
BodyIdentity == <<VarGet("$1")>>
BodySelf == <<BlockName("f"), ParenOpen, ParenClose>>
BodySelfGroup == <<ParenOpen, BlockName("g"), ParenOpen, Num(1), ParenClose, ParenClose>>

PowZeroNegative == <<BlockName("pow"), ParenOpen, Num(0), Separator, Sub, Num(1), ParenClose>>
UnknownCall == CallOf("h", 1)
UnknownCallBadArg == <<BlockName("h"), ParenOpen, Num(1), Div, Num(0), ParenClose>>
NameThenNumber == <<BlockName("x"), Num(5)>>

SessionInputs ==
    {CallOf("f", n) : n \in 0..MaxArgs} \cup
    {Definition("f", BodySquare), Definition("f", BodyCallsG), Definition("f", BodyFails),
     Definition("f", BodyAssigns), Definition("f", BodyUsesX),
     Definition("g", BodyIdentity),
     <<VarAssign("x"), Num(5)>>, <<VarGet("x")>>,
     UnknownCall, UnknownCallBadArg, PowZeroNegative, NameThenNumber,
     <<BlockName("pow"), ParenOpen, Num(2), Separator, Sub, Num(1), ParenClose>>,
     <<BlockName("pow"), ParenOpen, Num(2), Separator, Num(3), ParenClose>>,
     <<BlockName("abs"), ParenOpen, Sub, Num(3), ParenClose>>,
     <<BlockName("abs"), ParenOpen, Num(1), Separator, Num(2), ParenClose>>,
     <<Num(1), ParenClose>>, <<Num(1), Separator, Num(2)>>, <<Num(1), Num(2)>>,
     <<ParenOpen, Num(1), Separator, Num(2), ParenClose>>, <<ParenOpen, Num(1)>>,
     <<ParenOpen, ParenClose>>, <<>>, <<Add>>, <<BlockName("x")>>,
     <<VarAssign("f"), ParenOpen, Num(1), Separator, Num(2), ParenClose>>,
     <<VarAssign("f"), ParenOpen, Num(1)>>,
     <<Num(6), Xor, Num(3), Or, Num(1), And, Num(3)>>,
     <<Not, Num(1), BitshiftLeft, Num(2), BitshiftRight, Num(1)>>,
     <<Num(3), Factorial, Sub, Num(5), Div, Num(2)>>,
     <<Num(1), Div, Num(0)>>}

DeepInputs ==
    {Nest(U8Max - 1 + k) : k \in 0..MaxOver} \cup
    {Definition("f", BodySelf), CallOf("f", 0),
     Definition("g", BodySelfGroup), CallOf("g", 1)}

ArithOps == {Add, Sub, Mul}
ArithInputs ==
    {<<Num(a), op1, Num(b), op2, Num(c)>> :
        a \in 0..MaxLit, b \in 0..MaxLit, c \in 0..MaxLit, op1 \in ArithOps, op2 \in ArithOps}

Inputs(s) ==
    CASE s = "deep" -> DeepInputs
      [] s = "arith" -> ArithInputs
      [] OTHER -> SessionInputs

Evaluate(tokens) ==
    /\ pc \in {"idle", "done"}
    /\ result # Panic
    /\ input' = tokens
    /\ ctxs' = <<NewContext(tokens)>>
    /\ top' = Frame("calculate", "start")
    /\ stack' = <<>>
    /\ ret' = NoRet
    /\ pc' = "run"
    /\ result' = NoRet
    /\ UNCHANGED <<maps, suite>>

Returned ==
    /\ pc = "run"
    /\ top = NoFrame
    /\ result' = ret
    /\ pc' = "done"
    /\ ctxs' = <<>>
    /\ UNCHANGED <<maps, top, stack, ret, input, suite>>

InitSession(s) ==
    /\ variables = EmptyMap
    /\ functions = EmptyMap
    /\ ctxs = <<>>
    /\ top = NoFrame
    /\ stack = <<>>
    /\ ret = NoRet
    /\ pc = "idle"
    /\ input = <<>>
    /\ result = NoRet
    /\ suite = s

Init == InitSession("session")

Next ==
    \/ \E tokens \in Inputs(suite) : Evaluate(tokens)
    \/ calculate
    \/ calc_level2
    \/ calc_level3
    \/ calc_level4
    \/ calc_level5
    \/ calc_level6
    \/ calc_level7
    \/ calc_level8
    \/ calc_level9
    \/ get_number
    \/ Returned

Spec == Init /\ [][Next]_vars

InitDeep == InitSession("deep")
SpecDeep == InitDeep /\ [][Next]_vars

InitArith == InitSession("arith")
SpecArith == InitArith /\ [][Next]_vars

-----------------------------------------------------------------------------
(* Properties.                                                             *)

\* the function `fn` is running and stands at `at`
At(fn, at) == Running(fn) /\ top.at = at

\* the names $1 .. $MaxArgs
ParamNames == {ParamName(k) : k \in 1..MaxArgs}

\* the frames of the user-function calls whose body is being evaluated
BodyFrames == {i \in 1..Len(stack) : stack[i].fn = "calc_level9" /\ stack[i].at = "body"}

\* calc_level9 has read the whole argument list and its next step closes the
\* parenthesis and dispatches on the name
AboutToDispatch ==
    \/ At("calc_level9", "start") /\ peek = ParenOpen /\ PeekOf(next) = ParenClose
    \/ At("calc_level9", "arg") /\ ret.st = "Ok" /\ peek = ParenClose

(* C1: when a call of a user-defined function with N arguments returns,    *)
(* whether its body succeeded or failed, none of $1..$N is a key of the    *)
(* variable map; and whenever a top-level evaluation has returned, the     *)
(* variable map of the session holds no $k key.                            *)
C1_ParamsRemoved ==
    [][/\ At("calc_level9", "body") =>
            \A k \in 1..top.len : ParamName(k) \notin DOMAIN variables'
       /\ (pc' \in {"idle", "done"} /\ result' # Panic) =>
            DOMAIN variables' \cap ParamNames = {}]_vars

\* a call whose body failed has returned, and left no parameter behind
C1_FailedCallReturned ==
    /\ pc = "done"
    /\ input = CallOf("f", 1)
    /\ result = Err(Error("DivideByZero"))
    /\ DOMAIN variables \cap ParamNames = {}

(* C2: while the body of a call with N arguments is evaluated, every read  *)
(* of $k (1 <= k <= N) gives the k-th argument of that call, also after    *)
(* the body has called another function.                                   *)
C2_ParamReads ==
    (At("get_number", "start") /\ peek.t = "VarGet" /\ BodyFrames # {}) =>
        LET call == stack[CHOOSE i \in BodyFrames : \A j \in BodyFrames : j <= i]
        IN  \A k \in 1..call.len :
                peek.name = ParamName(k) =>
                    ReadVariable(variables, peek.name) = Ok(call.args[k])

\* the input nests groups or calls past the bound
TooDeepInput ==
    \/ \E k \in 1..MaxOver : input = Nest(U8Max - 1 + k)
    \/ /\ input = CallOf("f", 0)
       /\ "f" \in DOMAIN functions
       /\ functions["f"] = Append(BodySelf, ParenClose)
    \/ /\ input = CallOf("g", 1)
       /\ "g" \in DOMAIN functions
       /\ functions["g"] = Append(BodySelfGroup, ParenClose)

(* C3: the depth counter never wraps: a step changes the level of a        *)
(* Context by one at most, a new Context is one level deeper than the one  *)
(* of its caller, no more than 256 Contexts are ever nested, and an input  *)
(* that nests groups or calls past the bound ends with TooDeep.            *)
C3_DepthBounded ==
    [][/\ \A i \in 1..Len(ctxs') :
            /\ i <= Len(ctxs) => ctxs'[i].level - ctxs[i].level \in {-1, 0, 1}
            /\ (i > Len(ctxs) /\ i > 1) => ctxs'[i].level = ctxs'[i - 1].level + 1
       /\ Len(ctxs') <= U8Max + 1
       /\ (pc' = "done" /\ TooDeepInput') => result' = Err(Error("TooDeep"))]_vars

\* a function that calls itself has been called, and the call ended with TooDeep
C3_RecursionStopped ==
    /\ pc = "done"
    /\ input = CallOf("f", 0)
    /\ result = Err(Error("TooDeep"))

(* C4 as claimed: an identifier that is neither abs nor pow and no key of  *)
(* the function map, followed by an open-parenthesis, makes the evaluation *)
(* fail with UnknownFunction, whatever the argument list is.               *)
C4_AlwaysUnknownFunction ==
    (/\ pc = "done"
     /\ Len(input) >= 2
     /\ input[1].t = "BlockName"
     /\ input[1].name \notin {"abs", "pow"}
     /\ input[2] = ParenOpen
     /\ input[1].name \notin DOMAIN functions) =>
        result = Err(UnknownFunction(input[1].name))

(* C4 as amended: once the argument list has been evaluated without error  *)
(* and is closed by a close-parenthesis, a name that is neither abs nor    *)
(* pow and is no key of the function map makes the call fail with          *)
(* UnknownFunction carrying that name, and the evaluation returns that     *)
(* error unchanged.                                                        *)
C4_UnknownFunctionAfterArgs ==
    [][/\ (/\ AboutToDispatch
           /\ top.name \notin {NoName, "abs", "pow"}
           /\ top.name \notin DOMAIN functions) =>
                ret' = Err(UnknownFunction(top.name))
       /\ (pc = "run" /\ ret.st = "Err") =>
            IF top = NoFrame THEN pc' = "done" /\ result' = ret ELSE ret' = ret]_vars

\* an unknown function was called with a well-formed argument list
C4_UnknownCallReturned ==
    /\ pc = "done"
    /\ input = UnknownCall
    /\ result = Err(UnknownFunction("h"))

(* C5: pow with a zero base and a negative integral exponent fails with    *)
(* DivideByZero, as does evaluating pow(0,-1).                             *)
C5_PowZeroNegative ==
    (pc = "done" /\ input = PowZeroNegative) => result = Err(Error("DivideByZero"))

\* the reference evaluator: mul binds tighter than add and sub, and operators
\* of the same level group to the right
RefApply(op, a, b) ==
    CASE op = Add -> a + b
      [] op = Sub -> a - b
      [] op = Mul -> a * b

RefEval(a, op1, b, op2, c) ==
    IF op1 = Mul /\ op2 # Mul
    THEN RefApply(op2, RefApply(op1, a, b), c)
    ELSE RefApply(op1, a, RefApply(op2, b, c))

(* C6: a op1 b op2 c, for integer literals and operators among add, sub    *)
(* and mul, evaluates to the value of the reference evaluator.             *)
C6_Precedence ==
    (pc = "done" /\ suite = "arith") =>
        result = Ok(FromInt(RefEval(input[1].v.n, input[2], input[3].v.n,
                                    input[4], input[5].v.n)))

\* 1 - 2 - 3 has been evaluated as 1 - (2 - 3)
C6_RightGrouped ==
    /\ pc = "done"
    /\ input = <<Num(1), Sub, Num(2), Sub, Num(3)>>
    /\ result = Ok(FromInt(2))

(* C7: an assignment whose right-hand side evaluated stores the value      *)
(* under the name and evaluates to zero; a binding of an ordinary name is  *)
(* never removed and changes only by an assignment to that name, so it     *)
(* outlives the evaluation and the function call it was made in; and a     *)
(* variable read gives the value bound.                                    *)
C7_AssignmentPersists ==
    [][/\ (At("get_number", "assign") /\ ret.st = "Ok") =>
            /\ variables' = insert(variables, top.name, ret.val)
            /\ ret' = Ok(Zero)
       /\ \A x \in DOMAIN variables \ ParamNames :
            /\ x \in DOMAIN variables'
            /\ variables'[x] # variables[x] =>
                    At("get_number", "assign") /\ top.name = x
       /\ (At("get_number", "start") /\ peek.t = "VarGet"
               /\ peek.name \in DOMAIN variables) =>
            ret' = Ok(variables[peek.name])]_vars

\* x, assigned only inside the body of f, is read back by a later evaluation
C7_ReadBackAfterCall ==
    /\ pc = "done"
    /\ input = <<VarGet("x")>>
    /\ result = Ok(FromInt(1))

\* the first token of the input is one of the forms a primary starts with
RecognizedPrimary(toks) ==
    /\ toks # <<>>
    /\ \/ toks[1].t \in {"Num", "Sub", "ParenOpen", "VarAssign", "VarGet"}
       \/ toks[1].t = "BlockName" /\ Len(toks) >= 2 /\ toks[2] = ParenOpen

(* C8: at a primary position, a next token that is none of the recognized  *)
(* forms (the end of the stream and an identifier not followed by an       *)
(* open-parenthesis included) makes the evaluation fail with               *)
(* InvalidSyntax.  The start of the input is a primary position unless     *)
(* the input starts with the prefix operator.                              *)
C8_InvalidSyntax ==
    (/\ pc = "done"
     /\ ~RecognizedPrimary(input)
     /\ (input = <<>> \/ input[1] # Not)) =>
        result = Err(Error("InvalidSyntax"))

(* C9: when the cascade has returned a value inside calculate and no xor   *)
(* follows: a close-parenthesis or separator at a nonzero depth is left    *)
(* unconsumed and the value returned; any token left at depth zero gives   *)
(* ExpectedEOF carrying that token; no token left gives the value.         *)
C9_LeftoverToken ==
    [][(At("calculate", "expr1") /\ ret.st = "Ok" /\ peek # Xor) =>
            /\ (peek \in {ParenClose, Separator} /\ Cur.level # 0) =>
                    ret' = ret /\ ctxs' = ctxs
            /\ (peek # NoTok /\ Cur.level = 0) => ret' = Err(ExpectedEOF(peek))
            /\ peek = NoTok => ret' = ret]_vars

\* calculate has handed a value back to an argument list, the separator unconsumed
C9_SeparatorHandedBack ==
    /\ At("calc_level9", "arg")
    /\ ret.st = "Ok"
    /\ peek = Separator
    /\ Cur.level # 0

(* C10: a definition stores the tokens up to the matching                  *)
(* close-parenthesis without evaluating them (it returns at once, with     *)
(* zero or with one of the three errors of the capture loop, and leaves    *)
(* the variables alone) and replaces the earlier definition of the name;   *)
(* nothing else changes the function map; and a call evaluates the tokens  *)
(* the function map holds for the name at the time of the call.            *)
C10_Definition ==
    [][/\ (At("get_number", "start") /\ peek.t = "VarAssign"
               /\ PeekOf(next) = ParenOpen) =>
            /\ variables' = variables
            /\ stack' = stack
            /\ Len(ctxs') = Len(ctxs)
            /\ \/ /\ ret' = Ok(Zero)
                  /\ DOMAIN functions' = DOMAIN functions \cup {peek.name}
                  /\ \A f \in DOMAIN functions \ {peek.name} : functions'[f] = functions[f]
                  /\ Tail(Tail(Cur.tokens)) =
                        functions'[peek.name] \o ctxs'[Len(ctxs')].tokens
                  /\ functions'[peek.name][Len(functions'[peek.name])] = ParenClose
               \/ /\ ret'.st = "Err"
                  /\ ret'.err.kind \in {"SeparatorInDef", "UnclosedParen", "TooDeep"}
                  /\ functions' = functions
       /\ functions' # functions => At("get_number", "start") /\ peek.t = "VarAssign"
       /\ (Len(ctxs) >= 1 /\ Len(ctxs') = Len(ctxs) + 1) =>
            ctxs'[Len(ctxs')].tokens = functions[stack'[Len(stack')].name]]_vars

\* f, whose body reads x, has been called with x bound
C10_BodyUsedSessionVariable ==
    /\ pc = "done"
    /\ input = CallOf("f", 1)
    /\ "f" \in DOMAIN functions
    /\ functions["f"] = Append(BodyUsesX, ParenClose)
    /\ result = Ok(FromInt(6))

====
